---- MODULE Spec2Model ----
(***************************************************************************)
(* Model of the chat client in static/script.js: the handlers attached at  *)
(* DOMContentLoaded, the promise chain of sendMessage, and the renderers   *)
(* addMessage / addMedicalResponse with the markup they hand to innerHTML. *)
(*                                                                         *)
(* Strings are sequences of one-character strings.  A few fixed pieces of  *)
(* template text ("Reported symptoms:", the apology sentence, ...) are     *)
(* carried as one opaque character each: they hold none of the characters  *)
(* the escaper, the formatter or the HTML tokenizer react to.  Layout      *)
(* (style.height, scrollTop) and focus are not modelled.                   *)
(***************************************************************************)
EXTENDS Integers, Sequences, FiniteSets, TLC

\* ------------------------------------------------------------------ bounds
MaxSends == 2
MaxTextLen == 5
MaxSymLen == 2
MaxSymptoms == 2

\* ------------------------------------------------------------- characters
NL == "\n"
Whitespace == {" ", NL}
AsciiLetters ==
    {"a","b","c","d","e","f","g","h","i","j","k","l","m",
     "n","o","p","q","r","s","t","u","v","w","x","y","z"}

RECURSIVE SeqsUpTo(_, _)
SeqsUpTo(S, n) ==
    IF n = 0 THEN {<<>>}
    ELSE LET shorter == SeqsUpTo(S, n - 1)
         IN  shorter \cup {Append(s, c) : s \in shorter, c \in S}

\* F(v), with v evaluated once before F is applied to it
Bind(v, F(_)) == CHOOSE r \in {F(x) : x \in {v}} : TRUE

\* s has the characters of p at position i
HasAt(s, i, p) ==
    /\ i + Len(p) - 1 <= Len(s)
    /\ \A k \in 1..Len(p) : s[i + k - 1] = p[k]

\* the least j in lo..Len(s) with s[j] \in S, or 0
FirstIn(s, lo, S) ==
    LET hits == {j \in lo..Len(s) : s[j] \in S}
    IN  IF hits = {} THEN 0 ELSE CHOOSE j \in hits : \A k \in hits : j <= k

\* String.prototype.trim
RECURSIVE TrimLeft(_)
TrimLeft(s) ==
    IF s # <<>> /\ Head(s) \in Whitespace THEN TrimLeft(Tail(s)) ELSE s

RECURSIVE TrimRight(_)
TrimRight(s) ==
    IF s # <<>> /\ s[Len(s)] \in Whitespace
    THEN TrimRight(SubSeq(s, 1, Len(s) - 1)) ELSE s

Trim(s) == TrimRight(TrimLeft(s))

\* ------------------------------------------------------------ escaping
\* tempDiv.textContent = text; safeText = tempDiv.innerHTML:
\* the serialisation of a text node escapes & < > .
EscapeChar(c) ==
    CASE c = "&" -> <<"&", "a", "m", "p", ";">>
      [] c = "<" -> <<"&", "l", "t", ";">>
      [] c = ">" -> <<"&", "g", "t", ";">>
      [] OTHER   -> <<c>>

EscapeAll(s) ==
    LET esc[i \in 1..(Len(s) + 1)] ==
          IF i > Len(s) THEN <<>> ELSE EscapeChar(s[i]) \o esc[i + 1]
    IN  esc[1]

NoEscapeHTML(text) == text

EscapeHTML(text) == Bind(text, EscapeAll)

\* ------------------------------------------------------------ formatting
STRONG == <<"s", "t", "r", "o", "n", "g">>
EM == <<"e", "m">>
BR == <<"b", "r">>
SPAN == <<"s", "p", "a", "n">>
DIV == <<"d", "i", "v">>
OpenTag(n) == <<"<">> \o n \o <<">">>
CloseTag(n) == <<"<", "/">> \o n \o <<">">>
\* the bullet glyph U+2022, one character
Bullet == "(bullet)"

\* s.replace(/D(.*?)D/g, '<n>$1</n>') for a delimiter D of stars: scanning
\* from the left, a D at i pairs with the nearest D at j >= i + Len(D), if no
\* line terminator lies between ('.' does not match one); the search goes
\* on after the closing D.  Where no pair starts, the character is kept.
ReplacePairs(s, D, n) ==
    LET out[i \in 1..(Len(s) + 1)] ==
          IF i > Len(s) THEN <<>>
          ELSE LET closers == {j \in (i + Len(D))..Len(s) :
                                  /\ HasAt(s, j, D)
                                  /\ \A k \in (i + Len(D))..(j - 1) : s[k] # NL}
               IN  IF HasAt(s, i, D) /\ closers # {}
                   THEN LET j == CHOOSE c \in closers : \A k \in closers : c <= k
                        IN  OpenTag(n) \o SubSeq(s, i + Len(D), j - 1) \o CloseTag(n)
                              \o out[j + Len(D)]
                   ELSE <<s[i]>> \o out[i + 1]
    IN  out[1]

\* .replace(/\*\*(.*?)\*\*/g, '<strong>$1</strong>')
ReplaceBold(s) == ReplacePairs(s, <<"*", "*">>, STRONG)

\* .replace(/\*(.*?)\*/g, '<em>$1</em>')
ReplaceItalic(s) == ReplacePairs(s, <<"*">>, EM)

\* .replace(/^- /gm, '(bullet) ')
ReplaceBullets(s) ==
    LET out[i \in 1..(Len(s) + 1)] ==
          IF i > Len(s) THEN <<>>
          ELSE IF (i = 1 \/ s[i - 1] = NL) /\ HasAt(s, i, <<"-", " ">>)
               THEN <<Bullet, " ">> \o out[i + 2]
               ELSE <<s[i]>> \o out[i + 1]
    IN  out[1]

\* .replace(/\n/g, '<br>')
ReplaceNewlines(s) ==
    LET out[i \in 1..(Len(s) + 1)] ==
          IF i > Len(s) THEN <<>>
          ELSE (IF s[i] = NL THEN OpenTag(BR) ELSE <<s[i]>>) \o out[i + 1]
    IN  out[1]

\* the four replacements with the italic one run before the bold one
FormatTextItalicFirst(safeText) ==
    Bind(Bind(Bind(Bind(safeText, ReplaceItalic), ReplaceBold), ReplaceBullets),
         ReplaceNewlines)

FormatText(safeText) ==
    Bind(Bind(Bind(Bind(safeText, ReplaceBold), ReplaceItalic), ReplaceBullets),
         ReplaceNewlines)

\* ------------------------------------------------- the HTML fragment parser
\* element.innerHTML = markup.  Tokens of the markup, as the HTML tokenizer
\* cuts them in the data state:
\*   [t |-> "char"]   a character of text (character references decoded)
\*   [t |-> "start"]  a start tag: its name, and whether it carries the
\*                    attribute class="symptom-tag"
\*   [t |-> "end"]    an end tag
CharTok(c) == [t |-> "char", c |-> c, name |-> <<>>, cls |-> FALSE]
StartTok(n, cls) == [t |-> "start", c |-> "", name |-> n, cls |-> cls]
EndTok(n) == [t |-> "end", c |-> "", name |-> n, cls |-> FALSE]

\* the attribute class="symptom-tag", one opaque character after a space
ClassSymptomTag == "class=symptom-tag"

\* the named character references the serialiser of EscapeHTML produces; the
\* tokenizer also accepts them without the semicolon
CharRefs ==
    { [name |-> <<"a", "m", "p", ";">>, c |-> "&"],
      [name |-> <<"l", "t", ";">>, c |-> "<"],
      [name |-> <<"g", "t", ";">>, c |-> ">"],
      [name |-> <<"a", "m", "p">>, c |-> "&"],
      [name |-> <<"l", "t">>, c |-> "<"],
      [name |-> <<"g", "t">>, c |-> ">"] }

\* the longest character reference that starts after the & at i, if any
CharRefAt(s, i) ==
    LET ms == {r \in CharRefs : HasAt(s, i + 1, r.name)}
    IN  IF ms = {} THEN [c |-> "&", len |-> 1]
        ELSE LET r == CHOOSE m \in ms : \A o \in ms : Len(o.name) <= Len(m.name)
             IN  [c |-> r.c, len |-> 1 + Len(r.name)]

TagNameEnd == Whitespace \cup {"/", ">"}

\* tok[i] is the token sequence of the markup from position i on
Tokenize(s) ==
    LET tok[i \in 1..(Len(s) + 1)] ==
          IF i > Len(s) THEN <<>>
          ELSE IF s[i] = "&"
          THEN LET r == CharRefAt(s, i)
               IN  <<CharTok(r.c)>> \o tok[i + r.len]
          ELSE IF s[i] = "<" /\ i < Len(s) /\ s[i + 1] \in AsciiLetters
          THEN \* tag open: the name runs to white space, / or >; the tag to
               \* the next >
               LET e  == FirstIn(s, i + 1, TagNameEnd)
                   gt == FirstIn(s, i + 1, {">"})
               IN  IF gt = 0 THEN <<>>    \* end of input inside a tag: dropped
                   ELSE <<StartTok(SubSeq(s, i + 1, e - 1),
                                   \E k \in e..gt : s[k] = ClassSymptomTag)>>
                          \o tok[gt + 1]
          ELSE IF s[i] = "<" /\ i + 1 < Len(s) /\ s[i + 1] = "/"
                    /\ s[i + 2] \in AsciiLetters
          THEN LET e  == FirstIn(s, i + 2, TagNameEnd)
                   gt == FirstIn(s, i + 2, {">"})
               IN  IF gt = 0 THEN <<>>
                   ELSE <<EndTok(SubSeq(s, i + 2, e - 1))>> \o tok[gt + 1]
          ELSE IF s[i] = "<" /\ i + 1 < Len(s) /\ s[i + 1] = "/"
          THEN \* "</>" is dropped; "</" before anything else opens a bogus
               \* comment, which runs to the next >
               LET gt == FirstIn(s, i + 2, {">"})
               IN  IF gt = 0 THEN <<>> ELSE tok[gt + 1]
          ELSE <<CharTok(s[i])>> \o tok[i + 1]
    IN  tok[1]

ParseHTML(markup) == Bind(markup, Tokenize)

\* the names of the elements a fragment's start tags create
ElementsOf(toks) ==
    {toks[k].name : k \in {j \in 1..Len(toks) : toks[j].t = "start"}}

\* textContent of a parsed fragment
TextOf(toks) ==
    LET txt[i \in 1..(Len(toks) + 1)] ==
          IF i > Len(toks) THEN <<>>
          ELSE (IF toks[i].t = "char" THEN <<toks[i].c>> ELSE <<>>) \o txt[i + 1]
    IN  txt[1]

TextContent(toks) == Bind(toks, TextOf)

\* Tree construction, as far as the symptom chips need it: a stack of open
\* elements; br is void; an end tag closes the nearest open element of its
\* name, and an end tag of an ordinary element does not look past a div.
VoidElements == {BR}
SpecialElements == {DIV}

MatchIndex(stack, n) ==
    LET ms == {m \in 1..Len(stack) :
                  /\ stack[m].name = n
                  /\ n \in SpecialElements
                       \/ \A k \in (m + 1)..Len(stack) :
                             stack[k].name \notin SpecialElements}
    IN  IF ms = {} THEN 0 ELSE CHOOSE m \in ms : \A k \in ms : k <= m

\* chips[k] is the textContent of the k-th element with class symptom-tag
RECURSIVE WalkChips(_, _, _, _)
WalkChips(toks, i, stack, chips) ==
    IF i > Len(toks) THEN chips
    ELSE LET tk == toks[i]
             \* the stack and the chips after this token
             after ==
                CASE tk.t = "char" ->
                       [stack |-> stack,
                        chips |-> [k \in DOMAIN chips |->
                                     IF \E m \in 1..Len(stack) : stack[m].chip = k
                                     THEN Append(chips[k], tk.c) ELSE chips[k]]]
                  [] tk.t = "start" ->
                       IF tk.name \in VoidElements
                       THEN [stack |-> stack, chips |-> chips]
                       ELSE IF tk.cls
                       THEN [stack |-> Append(stack, [name |-> tk.name,
                                                      chip |-> Len(chips) + 1]),
                             chips |-> Append(chips, <<>>)]
                       ELSE [stack |-> Append(stack, [name |-> tk.name, chip |-> 0]),
                             chips |-> chips]
                  [] OTHER ->
                       LET m == MatchIndex(stack, tk.name)
                       IN  [stack |-> IF m = 0 THEN stack ELSE SubSeq(stack, 1, m - 1),
                            chips |-> chips]
         IN  Bind(after, LAMBDA a : WalkChips(toks, i + 1, a.stack, a.chips))

ChipsOf(toks) == Bind(toks, LAMBDA t : WalkChips(t, 1, <<>>, <<>>))

\* ------------------------------------------------------------- payloads
\* An absent property (undefined) is the empty tuple, a present one <<value>>.
None == <<>>
Some(v) == <<v>>

\* the value response.json() resolves with: null, or an object with the
\* properties the client reads
NullData ==
    [isNull |-> TRUE, mode |-> "chat", response |-> None,
     symptoms |-> None, disease |-> None]
ChatData(response) ==
    [isNull |-> FALSE, mode |-> "chat", response |-> response,
     symptoms |-> None, disease |-> None]
MedicalData(symptoms, disease) ==
    [isNull |-> FALSE, mode |-> "medical", response |-> None,
     symptoms |-> symptoms, disease |-> disease]

\* a response body: JSON text that parses to data, or text that does not parse
InvalidBody == [valid |-> FALSE, data |-> NullData]
JsonBody(data) == [valid |-> TRUE, data |-> data]

\* String(v) of a property that may be undefined; "undefined" is one opaque
\* character here
StringOf(opt) == IF opt = None THEN <<"(undefined)">> ELSE opt[1]

\* node.textContent = v: undefined and null become the empty string
ToTextContent(opt) == IF opt = None THEN <<>> ELSE opt[1]

\* "... I couldn't process your request. Please check your internet
\* connection and try again.": one opaque character
Apology == <<"(apology)">>

\* ------------------------------------------------------------- the state
VARIABLES
    inputValue,        \* userInput.value
    sendBtnDisabled,   \* sendBtn.disabled
    isProcessing,      \* let isProcessing
    thinkingMessage,   \* let thinkingMessage: a node id, 0 for null
    chatBox,           \* chatBox.children, a sequence of nodes
    suggestions,       \* the element .suggestion-bubbles: "absent", "child"
                       \* (a child of chatBox) or "outside" (anywhere else)
    created,           \* number of nodes created so far (the next node's id - 1)
    requests,          \* the fetches whose promise chain has not settled
    dispatched,        \* the message of every POST /chat sent, in order
    event              \* the handler that ran last, and its argument

vars ==
    <<inputValue, sendBtnDisabled, isProcessing, thinkingMessage, chatBox,
      suggestions, created, requests, dispatched, event>>

\* a node of the chat box.  kind: "static" (markup of the page), "suggestions",
\* "user", "bot", "medical", "thinking".  text and payload record what the
\* renderer was called with; body, chips, condition and count are what it built.
Node(id, kind) ==
    [id |-> id, kind |-> kind, text |-> <<>>, body |-> <<>>,
     chips |-> <<>>, condition |-> <<>>, count |-> 0, payload |-> NullData]

\* the part of the document the renderers work on
Dom ==
    [chatBox |-> chatBox, suggestions |-> suggestions,
     thinkingMessage |-> thinkingMessage, created |-> created]

SetDom(dom) ==
    \E d \in {dom} :
        /\ chatBox' = d.chatBox
        /\ suggestions' = d.suggestions
        /\ thinkingMessage' = d.thinkingMessage
        /\ created' = d.created

\* node.remove()
RemoveNode(cb, id) == SelectSeq(cb, LAMBDA n : n.id # id)

\* ------------------------------------------------------------ renderers
\* suggestions && chatBox.children.length > 1
SuggestionsRemovable(d) == d.suggestions # "absent" /\ Len(d.chatBox) > 1

\* addMessage(text, type) putting msgDiv before the first child of the chat
\* box instead of after the last
addMessagePrepending(d, text, type) ==
    LET id        == d.created + 1
        safeText  == EscapeHTML(ToTextContent(text))
        formatted == FormatText(safeText)
        msgDiv    == [Node(id, type) EXCEPT !.text = ToTextContent(text),
                                            !.body = ParseHTML(formatted)]
        inserted  == [d EXCEPT !.chatBox = <<msgDiv>> \o @, !.created = id]
    IN  IF SuggestionsRemovable(inserted)
        THEN [inserted EXCEPT
                !.chatBox = SelectSeq(@, LAMBDA n : n.kind # "suggestions"),
                !.suggestions = "absent"]
        ELSE inserted

\* addMessage(text, type) for type user or bot; text may be undefined
addMessage(d, text, type) ==
    LET id        == d.created + 1
        safeText  == EscapeHTML(ToTextContent(text))
        formatted == FormatText(safeText)
        msgDiv    == [Node(id, type) EXCEPT !.text = ToTextContent(text),
                                            !.body = ParseHTML(formatted)]
        appended  == [d EXCEPT !.chatBox = Append(@, msgDiv), !.created = id]
    IN  IF SuggestionsRemovable(appended)
        THEN [appended EXCEPT
                !.chatBox = SelectSeq(@, LAMBDA n : n.kind # "suggestions"),
                !.suggestions = "absent"]
        ELSE appended

\* symptom.replace(/_/g, ' ')
ReplaceUnderscores(symptom) ==
    [i \in 1..Len(symptom) |-> IF symptom[i] = "_" THEN " " ELSE symptom[i]]

\* `<span class="symptom-tag">${symptom.replace(/_/g, ' ')}</span>`
ChipMarkup(symptom) ==
    <<"<">> \o SPAN \o <<" ", ClassSymptomTag, ">">>
        \o ReplaceUnderscores(symptom) \o CloseTag(SPAN)

\* symptoms.map(...).join('')
JoinChips(symptoms) ==
    LET join[i \in 1..(Len(symptoms) + 1)] ==
          IF i > Len(symptoms) THEN <<>>
          ELSE ChipMarkup(symptoms[i]) \o join[i + 1]
    IN  join[1]

\* the template of symptomsSection.innerHTML; a run of white space is one NL
SymptomsMarkup(symptoms) ==
    <<NL>> \o OpenTag(STRONG) \o <<"Reported symptoms:">> \o CloseTag(STRONG)
        \o <<NL, "<">> \o DIV \o <<" ", "class=symptom-list", ">", NL>>
        \o JoinChips(symptoms)
        \o <<NL>> \o CloseTag(DIV) \o <<NL>>

\* the template of conditionSection.innerHTML
ConditionLabel == <<"Possible condition:">>
ConditionMarkup(disease) ==
    <<NL>> \o OpenTag(STRONG) \o ConditionLabel \o CloseTag(STRONG)
        \o <<" ">> \o StringOf(disease) \o <<NL>>

\* addMedicalResponse(data) with chatBox.appendChild(msgDiv) moved up, ahead of
\* the sections' construction
addMedicalResponseAppendFirst(d, data) ==
    LET id == d.created + 1
    IN  IF data.symptoms = None
        THEN [threw |-> TRUE,
              dom |-> [d EXCEPT !.chatBox = Append(@, [Node(id, "medical") EXCEPT
                                                          !.payload = data]),
                                !.created = id]]
        ELSE LET s       == data.symptoms[1]
                 msgDiv  == [Node(id, "medical") EXCEPT
                                !.chips = Bind(SymptomsMarkup(s),
                                               LAMBDA m : ChipsOf(ParseHTML(m))),
                                !.condition =
                                    TextContent(ParseHTML(ConditionMarkup(data.disease))),
                                !.count = Len(s),
                                !.payload = data]
             IN  [threw |-> FALSE,
                  dom |-> [d EXCEPT !.chatBox = Append(@, msgDiv), !.created = id]]

\* addMedicalResponse(data): data.symptoms.map throws on a missing symptoms
\* property, before anything is appended to the chat box
addMedicalResponse(d, data) ==
    IF data.symptoms = None THEN [threw |-> TRUE, dom |-> d]
    ELSE LET id      == d.created + 1
             s       == data.symptoms[1]
             msgDiv  == [Node(id, "medical") EXCEPT
                            !.chips = Bind(SymptomsMarkup(s),
                                           LAMBDA m : ChipsOf(ParseHTML(m))),
                            !.condition =
                                TextContent(ParseHTML(ConditionMarkup(data.disease))),
                            !.count = Len(s),
                            !.payload = data]
         IN  [threw |-> FALSE,
              dom |-> [d EXCEPT !.chatBox = Append(@, msgDiv), !.created = id]]

\* hideThinkingIndicator() without thinkingMessage = null
hideThinkingIndicatorKeepRef(d) ==
    IF d.thinkingMessage # 0
    THEN [d EXCEPT !.chatBox = RemoveNode(@, d.thinkingMessage)]
    ELSE d

\* hideThinkingIndicator()
hideThinkingIndicator(d) ==
    IF d.thinkingMessage # 0
    THEN [d EXCEPT !.chatBox = RemoveNode(@, d.thinkingMessage),
                   !.thinkingMessage = 0]
    ELSE d

\* showThinkingIndicator() without the removal of an existing indicator
showThinkingIndicatorKeepOld(d) ==
    LET id == d.created + 1
    IN  [d EXCEPT !.chatBox = Append(@, Node(id, "thinking")),
                  !.thinkingMessage = id, !.created = id]

\* showThinkingIndicator()
showThinkingIndicator(d) ==
    LET e  == IF d.thinkingMessage # 0
              THEN [d EXCEPT !.chatBox = RemoveNode(@, d.thinkingMessage),
                             !.thinkingMessage = 0]
              ELSE d
        id == e.created + 1
    IN  [e EXCEPT !.chatBox = Append(@, Node(id, "thinking")),
                  !.thinkingMessage = id, !.created = id]

\* ------------------------------------------------- the promise chain
\* What a settlement handler leaves: the document, and whether it got as far
\* as resetting isProcessing and sendBtn.disabled.
Outcome(d, reset) == [dom |-> d, reset |-> reset]

\* .catch(error => ...)
CatchHandler(d) ==
    Outcome(addMessage(hideThinkingIndicator(d), Some(Apology), "bot"), TRUE)

\* .then(data => ...) with a throw of the handler left unhandled
ThenDataUncaught(d, data) ==
    LET h == hideThinkingIndicator(d)
    IN  IF data.isNull THEN Outcome(h, FALSE)
        ELSE IF data.mode = "medical"
        THEN Bind(addMedicalResponse(h, data), LAMBDA r : Outcome(r.dom, ~r.threw))
        ELSE Outcome(addMessage(h, data.response, "bot"), TRUE)

\* .then(data => ...), and the .catch that follows it when it throws: reading
\* data.mode of null throws, and so does addMedicalResponse without symptoms
ThenData(d, data) ==
    LET h == hideThinkingIndicator(d)
    IN  IF data.isNull THEN CatchHandler(h)
        ELSE IF data.mode = "medical"
        THEN Bind(addMedicalResponse(h, data), LAMBDA r :
                IF r.threw THEN CatchHandler(r.dom) ELSE Outcome(r.dom, TRUE))
        ELSE Outcome(addMessage(h, data.response, "bot"), TRUE)

\* .then(response => ...): does the chain go on to response.json()?
AnyStatusAccepted(ok) == TRUE

\* if (!response.ok) throw, with the negation dropped
StatusInverted(ok) == ~ok

StatusAccepted(ok) == ok

\* the state a settlement handler leaves
Settle(outcome) ==
    \E o \in {outcome} :
        /\ SetDom(o.dom)
        /\ isProcessing' = (IF o.reset THEN FALSE ELSE isProcessing)
        /\ sendBtnDisabled' = (IF o.reset THEN FALSE ELSE sendBtnDisabled)

\* name: the handler; blank: whether the text it was called with trims to
\* nothing (the suggestion shortcut only)
Event(name, blank) == [name |-> name, blank |-> blank]

\* ------------------------------------------------------------- inputs
\* what the input box may hold: nothing, white space only, and two messages,
\* one of them with white space around it
InputValues == {<<>>, <<" ">>, <<" ", "x", NL>>, <<"y">>}
SuggestionTexts == InputValues

Bodies ==
    { InvalidBody,
      JsonBody(NullData),
      JsonBody(ChatData(Some(<<"x">>))),
      JsonBody(MedicalData(Some(<< <<"x", "_", "x">> >>), Some(<<"x">>))),
      JsonBody(MedicalData(None, Some(<<"x">>))) }

\* key presses: Enter, Shift+Enter, and a key that is not Enter
Keys ==
    { [key |-> "Enter", shiftKey |-> FALSE],
      [key |-> "Enter", shiftKey |-> TRUE],
      [key |-> "x", shiftKey |-> FALSE] }

\* the chat box and the suggestion bubbles as the page's markup may have them
InitialPages ==
    { [chatBox |-> <<>>, suggestions |-> "outside"],
      [chatBox |-> <<Node(1, "static")>>, suggestions |-> "outside"],
      [chatBox |-> <<Node(1, "suggestions")>>, suggestions |-> "child"],
      [chatBox |-> <<Node(1, "static"), Node(2, "suggestions")>>,
       suggestions |-> "child"] }

\* ------------------------------------------------------------- actions
\* The state after DOMContentLoaded.  The page's markup is not part of the
\* script: the input starts empty and the send button disabled.
Init ==
    /\ inputValue = <<>>
    /\ sendBtnDisabled = TRUE
    /\ isProcessing = FALSE
    /\ thinkingMessage = 0
    /\ \E page \in InitialPages :
          /\ chatBox = page.chatBox
          /\ suggestions = page.suggestions
          /\ created = Len(page.chatBox)
    /\ requests = {}
    /\ dispatched = <<>>
    /\ event = Event("load", FALSE)

\* the 'input' listener of userInput
InputEvent(v) ==
    /\ v # inputValue
    /\ inputValue' = v
    /\ sendBtnDisabled' = (Len(Trim(v)) = 0)
    /\ event' = Event("input", FALSE)
    /\ UNCHANGED <<isProcessing, thinkingMessage, chatBox, suggestions, created,
                   requests, dispatched>>

\* if (!message || isProcessing) return, with the isProcessing test left out
RejectedEmptyOnly(message) == message = <<>>

\* if (!message || isProcessing) return, with the !message test left out
RejectedBusyOnly(message) == isProcessing

\* if (!message || isProcessing) return
Rejected(message) == message = <<>> \/ isProcessing

\* sendMessage() without userInput.value = ''
sendMessageKeepInput(value, disabled) ==
    LET message == Trim(value)
    IN  IF Rejected(message)
        THEN /\ inputValue' = value
             /\ sendBtnDisabled' = disabled
             /\ UNCHANGED <<isProcessing, thinkingMessage, chatBox, suggestions,
                            created, requests, dispatched>>
        ELSE /\ Len(dispatched) < MaxSends
             /\ isProcessing' = TRUE
             /\ sendBtnDisabled' = TRUE
             /\ SetDom(showThinkingIndicator(addMessage(Dom, Some(message), "user")))
             /\ inputValue' = value
             /\ requests' = requests \cup
                    {[id |-> Len(dispatched) + 1, stage |-> "fetch",
                      body |-> InvalidBody]}
             /\ dispatched' = Append(dispatched, message)

\* sendMessage(), entered with userInput.value = value and
\* sendBtn.disabled = disabled
sendMessage(value, disabled) ==
    LET message == Trim(value)
    IN  IF Rejected(message)
        THEN /\ inputValue' = value
             /\ sendBtnDisabled' = disabled
             /\ UNCHANGED <<isProcessing, thinkingMessage, chatBox, suggestions,
                            created, requests, dispatched>>
        ELSE /\ Len(dispatched) < MaxSends
             /\ isProcessing' = TRUE
             /\ sendBtnDisabled' = TRUE
             /\ SetDom(showThinkingIndicator(addMessage(Dom, Some(message), "user")))
             /\ inputValue' = <<>>
             /\ requests' = requests \cup
                    {[id |-> Len(dispatched) + 1, stage |-> "fetch",
                      body |-> InvalidBody]}
             /\ dispatched' = Append(dispatched, message)

\* sendBtn 'click' listener; a disabled button receives no click
ClickSend ==
    /\ ~sendBtnDisabled
    /\ sendMessage(inputValue, sendBtnDisabled)
    /\ event' = Event("click", FALSE)

\* userInput 'keypress' listener
KeyPress(key, shiftKey) ==
    /\ IF key = "Enter" /\ ~shiftKey
       THEN sendMessage(inputValue, sendBtnDisabled)
       ELSE UNCHANGED <<inputValue, sendBtnDisabled, isProcessing, thinkingMessage,
                        chatBox, suggestions, created, requests, dispatched>>
    /\ event' = Event(IF key = "Enter" /\ ~shiftKey THEN "enter" ELSE "key", FALSE)

\* useSuggestion(text)
UseSuggestion(text) ==
    /\ sendMessage(text, FALSE)
    /\ event' = Event("suggestion", Trim(text) = <<>>)

\* fetch() rejects: the .catch handler runs
FetchReject(r) ==
    /\ r.stage = "fetch"
    /\ requests' = requests \ {r}
    /\ Settle(CatchHandler(Dom))
    /\ event' = Event("reject", FALSE)
    /\ UNCHANGED <<inputValue, dispatched>>

\* fetch() resolves with a response: the first .then handler runs, and on a
\* status that is not ok its throw takes the chain to the .catch handler
FetchResolve(r, ok, body) ==
    /\ r.stage = "fetch"
    /\ IF StatusAccepted(ok)
       THEN /\ requests' = (requests \ {r}) \cup
                              {[r EXCEPT !.stage = "json", !.body = body]}
            /\ UNCHANGED <<sendBtnDisabled, isProcessing, thinkingMessage, chatBox,
                           suggestions, created>>
       ELSE /\ requests' = requests \ {r}
            /\ Settle(CatchHandler(Dom))
    /\ event' = Event(IF ok THEN "ok" ELSE "notok", FALSE)
    /\ UNCHANGED <<inputValue, dispatched>>

\* response.json() settles: rejected on a body that does not parse, else the
\* second .then handler runs with the data
JsonSettle(r) ==
    /\ r.stage = "json"
    /\ requests' = requests \ {r}
    /\ IF r.body.valid
       THEN /\ Settle(ThenData(Dom, r.body.data))
            /\ event' = Event("data", FALSE)
       ELSE /\ Settle(CatchHandler(Dom))
            /\ event' = Event("badjson", FALSE)
    /\ UNCHANGED <<inputValue, dispatched>>

Next ==
    \/ \E v \in InputValues : InputEvent(v)
    \/ ClickSend
    \/ \E k \in Keys : KeyPress(k.key, k.shiftKey)
    \/ \E text \in SuggestionTexts : UseSuggestion(text)
    \/ \E r \in requests : FetchReject(r)
    \/ \E r \in requests, ok \in BOOLEAN, body \in Bodies : FetchResolve(r, ok, body)
    \/ \E r \in requests : JsonSettle(r)

Spec == Init /\ [][Next]_vars

\* every dispatched request eventually settles
Settlement ==
    \/ \E r \in requests : FetchReject(r)
    \/ \E r \in requests, ok \in BOOLEAN, body \in Bodies : FetchResolve(r, ok, body)
    \/ \E r \in requests : JsonSettle(r)

FairSpec == Spec /\ WF_vars(Settlement)

\* ------------------------------------------- specifications of the renderers
\* The renderers are functions of their argument: these specifications start
\* in the states in which a reply is about to be rendered, one for every
\* payload of a bounded set, and on the freshly loaded page, and run the
\* program's own handlers.
TextAlphabet == {"x", "*", "<", ">", "&", NL, "-", " "}
RenderTexts(n) == SeqsUpTo(TextAlphabet, n)

SymptomAlphabet == {"x", "_", "<", ">"}
SymptomArrays(len, n) == SeqsUpTo(SeqsUpTo(SymptomAlphabet, len), n)
Diseases(len) == SeqsUpTo({"x", "<", ">"}, len)

TextBodies(n) ==
    {JsonBody(ChatData(Some(t))) : t \in RenderTexts(n)}
        \cup {JsonBody(ChatData(None))}

MedicalBodies(len, n) ==
    {JsonBody(MedicalData(Some(a), Some(d))) :
        a \in SymptomArrays(len, n), d \in Diseases(len)}
        \cup {JsonBody(MedicalData(None, Some(d))) : d \in Diseases(len)}
        \cup {JsonBody(MedicalData(Some(a), None)) : a \in SymptomArrays(len, n)}

FreshPage ==
    /\ inputValue = <<>>
    /\ sendBtnDisabled = TRUE
    /\ isProcessing = FALSE
    /\ thinkingMessage = 0
    /\ chatBox = <<Node(1, "static")>>
    /\ suggestions = "outside"
    /\ created = 1
    /\ requests = {}
    /\ dispatched = <<>>
    /\ event = Event("load", FALSE)

\* the state the program is in after the user sent "x" from the fresh page
\* and the server answered with an ok status and the given body
AwaitingJson(body) ==
    LET d == showThinkingIndicator(
                addMessage([chatBox |-> <<Node(1, "static")>>,
                            suggestions |-> "outside",
                            thinkingMessage |-> 0, created |-> 1],
                           Some(<<"x">>), "user"))
    IN  /\ inputValue = <<>>
        /\ sendBtnDisabled = TRUE
        /\ isProcessing = TRUE
        /\ thinkingMessage = d.thinkingMessage
        /\ chatBox = d.chatBox
        /\ suggestions = d.suggestions
        /\ created = d.created
        /\ requests = {[id |-> 1, stage |-> "json", body |-> body]}
        /\ dispatched = << <<"x">> >>
        /\ event = Event("ok", FALSE)

TextInit == FreshPage \/ \E body \in TextBodies(MaxTextLen) : AwaitingJson(body)

\* the first thing done on the fresh page: the suggestion shortcut
FirstSend == event.name = "load" /\ \E text \in RenderTexts(MaxTextLen) : UseSuggestion(text)

RenderReply == \E r \in requests : JsonSettle(r)

TextNext == FirstSend \/ RenderReply

TextSpec == TextInit /\ [][TextNext]_vars

MedicalInit == \E body \in MedicalBodies(MaxSymLen, MaxSymptoms) : AwaitingJson(body)

MedicalNext == RenderReply

MedicalSpec == MedicalInit /\ [][MedicalNext]_vars

\* =================================================================== claims
\* the conversation turns of a chat box, in order
Turns(cb) == SelectSeq(cb, LAMBDA n : n.kind \in {"user", "bot", "medical"})

\* the number of thinking placeholders in a chat box
Placeholders(cb) == Len(SelectSeq(cb, LAMBDA n : n.kind = "thinking"))

SendTriggers == {"click", "enter", "suggestion"}

\* the step is a send trigger
SendAttempt == event'.name \in SendTriggers

\* the trigger of this step called sendMessage with a blank userInput.value
BlankAtCall ==
    IF event'.name = "suggestion" THEN event'.blank ELSE Trim(inputValue) = <<>>

\* the last turn is a bot turn showing the apology and nothing else
EndsWithApology(cb) ==
    LET t == Turns(cb)
    IN  /\ t # <<>>
        /\ t[Len(t)].kind = "bot"
        /\ TextContent(t[Len(t)].body) = Apology
        /\ ElementsOf(t[Len(t)].body) = {}

\* C1: while isProcessing is true, a send attempt (click, Enter, suggestion)
\* appends no turn and dispatches no request, and at no time is more than one
\* request outstanding.
C1_SingleFlight ==
    /\ [](Cardinality(requests) <= 1)
    /\ [][isProcessing /\ SendAttempt =>
            /\ Turns(chatBox') = Turns(chatBox)
            /\ dispatched' = dispatched
            /\ requests' = requests]_vars

\* a send attempt with sendable input was made while a request was in flight
C1_Witness ==
    /\ isProcessing
    /\ event.name \in SendTriggers
    /\ Trim(inputValue) # <<>>
    /\ Cardinality(requests) = 1

\* C2: whenever isProcessing is true, the send button is disabled.
C2_DisabledWhileProcessing == isProcessing => sendBtnDisabled

\* C3: whenever the input box holds only white space, the send button is
\* disabled.
C3_DisabledWhileBlank == Trim(inputValue) = <<>> => sendBtnDisabled

\* C4: sendMessage called with an input whose trimmed content is empty changes
\* nothing: no turn, no request, no placeholder, isProcessing as before.
C4_BlankSendIsNoOp ==
    [][SendAttempt /\ BlankAtCall =>
          UNCHANGED <<chatBox, thinkingMessage, created, requests, dispatched,
                      isProcessing>>]_vars

\* Enter was pressed on a blank input while a request was in flight
C4_Witness ==
    /\ event.name = "enter"
    /\ Trim(inputValue) = <<>>
    /\ isProcessing
    /\ Turns(chatBox) # <<>>

\* C5: a rejected request, or a response whose status is not ok (whatever its
\* body), removes the placeholder, appends exactly one bot turn with the
\* apology, clears isProcessing and enables the send button.
C5_FailureOutcome ==
    [][event'.name \in {"reject", "notok"} =>
          /\ thinkingMessage' = 0
          /\ Placeholders(chatBox') = 0
          /\ Len(Turns(chatBox')) = Len(Turns(chatBox)) + 1
          /\ SubSeq(Turns(chatBox'), 1, Len(Turns(chatBox))) = Turns(chatBox)
          /\ EndsWithApology(chatBox')
          /\ ~isProcessing'
          /\ ~sendBtnDisabled']_vars

\* a response with a status that is not ok has been handled
C5_Witness ==
    /\ event.name = "notok"
    /\ EndsWithApology(chatBox)
    /\ ~isProcessing

\* C6: the chat box never holds more than one thinking placeholder, and
\* showThinkingIndicator called twice in succession leaves exactly one.
C6_OnePlaceholder ==
    /\ Placeholders(chatBox) <= 1
    /\ Placeholders(showThinkingIndicator(showThinkingIndicator(Dom)).chatBox) = 1

\* a placeholder is in the chat box, for showThinkingIndicator to evict
C6_Witness == thinkingMessage # 0 /\ Placeholders(chatBox) = 1

\* C7: once a turn has been appended, the suggestion bubbles are gone,
\* whatever the chat box held at load.
C7_SuggestionsGone == Turns(chatBox) # <<>> => suggestions = "absent"

\* the client is idle: a send with non-empty input would be accepted
Idle ==
    /\ ~isProcessing
    /\ thinkingMessage = 0
    /\ Placeholders(chatBox) = 0
    /\ ~Rejected(<<"x">>)

\* C8: if every request settles, Sending is always followed by Idle, on
\* every settlement path.
C8_SendingLeadsToIdle == isProcessing ~> Idle

\* the client is idle again after a medical payload whose rendering threw
C8_Witness ==
    /\ event.name = "data"
    /\ EndsWithApology(chatBox)
    /\ Idle

\* s occurs in t as a run of consecutive characters
Contains(t, s) == \E i \in 1..(Len(t) + 1) : HasAt(t, i, s)

\* C9: a medical turn shows one chip per symptom, in order, each the symptom
\* with its underscores turned to spaces, a condition line containing the
\* disease, and the number of symptoms in the footer.
C9_MedicalTurnShowsPayload ==
    \A k \in 1..Len(chatBox) :
        chatBox[k].kind = "medical" =>
            LET n == chatBox[k]
                s == n.payload.symptoms[1]
            IN  /\ Len(n.chips) = Len(s)
                /\ \A i \in 1..Len(s) : n.chips[i] = ReplaceUnderscores(s[i])
                /\ Contains(n.condition, StringOf(n.payload.disease))
                /\ n.count = Len(s)

MarkupChars == {"<", ">", "&"}
FormatterElements == {STRONG, EM, BR}

\* C10: in a user or bot turn every < > & of the text shows as text, and the
\* only tags in the body are those of strong, em and br.
C10_EscapedBeforeFormatting ==
    \A k \in 1..Len(chatBox) :
        chatBox[k].kind \in {"user", "bot"} =>
            LET n == chatBox[k]
            IN  /\ \A j \in 1..Len(n.body) :
                      n.body[j].t # "char" => n.body[j].name \in FormatterElements
                /\ SelectSeq(TextContent(n.body), LAMBDA c : c \in MarkupChars)
                     = SelectSeq(n.text, LAMBDA c : c \in MarkupChars)

\* a turn whose text has < and > inside an emphasised span
C10_Witness ==
    \E k \in 1..Len(chatBox) :
        /\ chatBox[k].kind \in {"user", "bot"}
        /\ \E i, j \in 1..Len(chatBox[k].text) :
              chatBox[k].text[i] = "<" /\ chatBox[k].text[j] = ">"
        /\ EM \in ElementsOf(chatBox[k].body)

\* ---- what a plain turn is to show, stated on the text itself: the text as a
\* sequence of character items, into which the four rules put element tags
TextItems(text) == [i \in 1..Len(text) |-> CharTok(text[i])]

\* k stars in a row at position i
StarsAt(items, i, k) ==
    /\ i + k - 1 <= Len(items)
    /\ \A m \in 0..(k - 1) : items[i + m] = CharTok("*")

\* a span opened by k stars and closed by the next k stars on the same line
\* becomes an element n around what lies between them
WrapSpans(items, k, n) ==
    LET out[i \in 1..(Len(items) + 1)] ==
          IF i > Len(items) THEN <<>>
          ELSE LET closers == {j \in (i + k)..Len(items) :
                                  /\ StarsAt(items, j, k)
                                  /\ \A m \in (i + k)..(j - 1) :
                                        items[m] # CharTok(NL)}
               IN  IF StarsAt(items, i, k) /\ closers # {}
                   THEN LET j == CHOOSE c \in closers : \A o \in closers : c <= o
                        IN  <<StartTok(n, FALSE)>> \o SubSeq(items, i + k, j - 1)
                              \o <<EndTok(n)>> \o out[j + k]
                   ELSE <<items[i]>> \o out[i + 1]
    IN  out[1]

\* "- " at the start of a line becomes the bullet glyph and a space
MarkBullets(items) ==
    LET out[i \in 1..(Len(items) + 1)] ==
          IF i > Len(items) THEN <<>>
          ELSE IF /\ i < Len(items)
                  /\ items[i] = CharTok("-") /\ items[i + 1] = CharTok(" ")
                  /\ (i = 1 \/ items[i - 1] = CharTok(NL))
               THEN <<CharTok(Bullet), CharTok(" ")>> \o out[i + 2]
               ELSE <<items[i]>> \o out[i + 1]
    IN  out[1]

\* every newline becomes a line break
BreakLines(items) ==
    [i \in 1..Len(items) |->
        IF items[i] = CharTok(NL) THEN StartTok(BR, FALSE) ELSE items[i]]

Rendering(text) ==
    BreakLines(MarkBullets(WrapSpans(WrapSpans(TextItems(text), 2, STRONG), 1, EM)))

\* C11: the body of a user or bot turn is its text with every **x** span made
\* a strong element around x, then every remaining *x* span an em element
\* around x, then every "- " at the start of a line the bullet glyph and a
\* space, then every newline a br element; all other characters of the text,
\* < > & included, show as themselves.
C11_MinimalFormatting ==
    \A k \in 1..Len(chatBox) :
        chatBox[k].kind \in {"user", "bot"} =>
            chatBox[k].body = Rendering(chatBox[k].text)

\* a bot turn for the reply **x** has been rendered
C11_Witness ==
    \E k \in 1..Len(chatBox) :
        /\ chatBox[k].kind = "bot"
        /\ chatBox[k].text = <<"*", "*", "x", "*", "*">>
        /\ chatBox[k].body = <<StartTok(STRONG, FALSE), CharTok("x"), EndTok(STRONG)>>

\* the step appends the apology turn
ApologyAppended ==
    /\ Len(Turns(chatBox')) = Len(Turns(chatBox)) + 1
    /\ EndsWithApology(chatBox')

\* the request whose promise chain the step settles
Settled == CHOOSE r \in requests : r \notin requests'

\* payloads on which the success handler throws: null has no property mode,
\* and a medical payload without symptoms has nothing to map over
HandlerThrowsOn(data) ==
    data.isNull \/ (data.mode = "medical" /\ data.symptoms = None)

\* C12 as stated: the apology turn is appended only when the request was
\* rejected or the response status was not ok, never after an ok response.
C12_ApologyOnlyOnFailure ==
    [][ApologyAppended => event'.name \in {"reject", "notok"}]_vars

\* C12 amended: the apology turn is appended only when the request was
\* rejected, the response status was not ok, the body of an ok response was
\* not JSON, or the success handler threw on the payload.
C12_ApologyOnlyOnError ==
    [][ApologyAppended =>
          \/ event'.name \in {"reject", "notok", "badjson"}
          \/ event'.name = "data" /\ HandlerThrowsOn(Settled.body.data)]_vars

\* the apology was shown for an ok response whose body was not JSON
C12_Witness ==
    /\ event.name = "badjson"
    /\ EndsWithApology(chatBox)
    /\ requests = {}

\* the entry guard of sendMessage fails for the trigger of this step
GuardFails == BlankAtCall \/ isProcessing

\* C13: a send trigger (click, Enter without Shift, suggestion shortcut) whose
\* entry guard fails leaves the turns, isProcessing, the placeholder, the text
\* of the input box and the state of the send button as they were.
C13_FailedGuardIsNoOp ==
    [][SendAttempt /\ GuardFails =>
          /\ Turns(chatBox') = Turns(chatBox)
          /\ UNCHANGED <<isProcessing, thinkingMessage, inputValue,
                         sendBtnDisabled>>]_vars

\* C14: in every state between handlers, thinkingMessage is non-null exactly
\* when isProcessing is true, which is exactly when a request is outstanding,
\* and the node it names is then the one placeholder of the chat box; when it
\* is null the chat box holds no placeholder.
C14_PlaceholderIffProcessing ==
    /\ (thinkingMessage # 0) <=> isProcessing
    /\ isProcessing <=> (requests # {})
    /\ Placeholders(chatBox) = (IF isProcessing THEN 1 ELSE 0)
    /\ thinkingMessage # 0 =>
          \E k \in 1..Len(chatBox) :
              chatBox[k].id = thinkingMessage /\ chatBox[k].kind = "thinking"

\* a second request is in flight with its placeholder, the placeholder of
\* the first one gone
C14_Witness ==
    /\ Len(dispatched) = 2
    /\ isProcessing
    /\ thinkingMessage # 0
    /\ Placeholders(chatBox) = 1

\* the ids of the nodes of a chat box
Ids(cb) == {cb[k].id : k \in 1..Len(cb)}

\* the kinds of the nodes the step removes from the chat box
RemovedKinds ==
    {chatBox[k].kind : k \in {j \in 1..Len(chatBox) :
                                  chatBox[j].id \notin Ids(chatBox')}}

\* the turns before the step are a prefix of the turns after it, and the
\* nodes that stay keep their content and their order
TurnsExtended ==
    /\ Len(Turns(chatBox)) <= Len(Turns(chatBox'))
    /\ SubSeq(Turns(chatBox'), 1, Len(Turns(chatBox))) = Turns(chatBox)
    /\ SelectSeq(chatBox', LAMBDA n : n.id \in Ids(chatBox))
         = SelectSeq(chatBox, LAMBDA n : n.id \in Ids(chatBox'))

\* C15 as stated: the turns are append-only, and the only node ever removed
\* from the chat box is the thinking placeholder.
C15_OnlyPlaceholderRemoved ==
    [][TurnsExtended /\ RemovedKinds \subseteq {"thinking"}]_vars

\* C15 amended: the turns are append-only, and the only nodes ever removed
\* from the chat box are the thinking placeholder and the suggestion bubbles.
C15_TurnsAppendOnly ==
    [][TurnsExtended /\ RemovedKinds \subseteq {"thinking", "suggestions"}]_vars

\* on a page whose chat box held only the suggestion bubbles, a second
\* message was sent after the first was answered
C15_Witness ==
    /\ Len(Turns(chatBox)) = 3
    /\ chatBox[1].id = 2
    /\ Placeholders(chatBox) = 1

\* the step is a send trigger that called sendMessage with userInput.value = v
CalledWith(v) ==
    \/ event'.name \in {"click", "enter"} /\ v = inputValue
    \/ event'.name = "suggestion" /\ UseSuggestion(v)

UserTurns(cb) == SelectSeq(cb, LAMBDA n : n.kind = "user")

\* C16: a send whose guard passes appends, in one step, one user turn whose
\* text is the trimmed input, empties the input box, sets isProcessing, puts
\* the placeholder right after the user turn, and dispatches exactly one POST
\* whose message is the text of that turn; the number of POSTs dispatched is
\* always the number of user turns.
C16_AcceptedSend ==
    /\ [](Len(dispatched) = Len(UserTurns(chatBox)))
    /\ [][\A v \in InputValues \cup SuggestionTexts :
            CalledWith(v) /\ Trim(v) # <<>> /\ ~isProcessing =>
                LET n == Len(chatBox')
                IN  /\ n >= 2
                    /\ chatBox'[n - 1].kind = "user"
                    /\ chatBox'[n - 1].text = Trim(v)
                    /\ Turns(chatBox') = Append(Turns(chatBox), chatBox'[n - 1])
                    /\ chatBox'[n].kind = "thinking"
                    /\ chatBox'[n].id = thinkingMessage'
                    /\ Placeholders(chatBox') = 1
                    /\ inputValue' = <<>>
                    /\ isProcessing'
                    /\ dispatched' = Append(dispatched, chatBox'[n - 1].text)
                    /\ Cardinality(requests' \ requests) = 1
                    /\ requests \subseteq requests'
                    /\ \A r \in requests' \ requests : r.stage = "fetch"]_vars

\* Enter sent a second message, typed with white space around it
C16_Witness ==
    /\ event.name = "enter"
    /\ isProcessing
    /\ inputValue = <<>>
    /\ Len(dispatched) = 2
    /\ dispatched[2] = <<"x">>
    /\ Len(UserTurns(chatBox)) = 2

ServerTurns(cb) == SelectSeq(cb, LAMBDA n : n.kind \in {"bot", "medical"})

\* C17: the turns appended since load alternate user, server-authored (bot,
\* medical or apology), user, ... starting with a user turn, and there is one
\* more user turn than server-authored turns exactly while a request is
\* outstanding, and as many otherwise.
C17_TurnsAlternate ==
    /\ \A k \in 1..Len(Turns(chatBox)) :
          (Turns(chatBox)[k].kind = "user") <=> (k % 2 = 1)
    /\ Len(UserTurns(chatBox)) - Len(ServerTurns(chatBox))
         = (IF requests # {} THEN 1 ELSE 0)
    /\ isProcessing <=> (Len(Turns(chatBox)) % 2 = 1)

\* two exchanges: a medical reply, then the apology for a payload on which
\* the success handler threw
C17_Witness ==
    /\ Len(Turns(chatBox)) = 4
    /\ Turns(chatBox)[2].kind = "medical"
    /\ event.name = "data"
    /\ EndsWithApology(chatBox)
    /\ requests = {}

\* the strings of a sequence, one after the other
Flatten(ss) ==
    LET cat[i \in 1..(Len(ss) + 1)] ==
          IF i > Len(ss) THEN <<>> ELSE ss[i] \o cat[i + 1]
    IN  cat[1]

AngleBrackets(s) == SelectSeq(s, LAMBDA c : c \in {"<", ">"})

\* C18: in a medical turn every < and > of the symptom strings and of the
\* disease string shows as text, in the chips and in the condition line: none
\* of them is taken as markup.
C18_MedicalPayloadEscaped ==
    \A k \in 1..Len(chatBox) :
        chatBox[k].kind = "medical" =>
            LET n == chatBox[k]
            IN  /\ AngleBrackets(Flatten(n.chips))
                     = AngleBrackets(Flatten(n.payload.symptoms[1]))
                /\ AngleBrackets(n.condition)
                     = AngleBrackets(StringOf(n.payload.disease))

====
